---- MODULE Spec2Model ----
(***************************************************************************)
(* A model of neronet/experiment.py: the Experiment record, its lifecycle  *)
(* (update_state), its warnings, the condition evaluator                   *)
(* (ExperimentWarning.get_action), the aggregator (Experiment.get_action)  *)
(* and duplicate_experiment.                                               *)
(*                                                                         *)
(* Python values are tagged records (None, str, list, dict, ref) so that   *)
(* truthiness and equality are those of the source.  Mutable objects that  *)
(* the source shares by reference (ExperimentWarning objects, the warnings *)
(* lists) live in heaps indexed by references.  Text that the source       *)
(* slices, strips and parses (log rows, varname, when) is a sequence of    *)
(* one-character strings.  Time is wall-clock seconds.                     *)
(***************************************************************************)
EXTENDS Integers, Sequences, FiniteSets, TLC

VARIABLES
    now,      \* datetime.datetime.now(), in whole seconds
    warns,    \* heap of ExperimentWarning objects: reference -> object
    lists,    \* heap of Python lists held in the 'warnings' field
    exps,     \* the Experiment objects: slot -> [exists, _experiment_id, _fields]
    arg,      \* the log row handed to the evaluator under test
    fs,       \* the file system: path of an output file -> its lines
    ret       \* what the last call did and returned

vars == <<now, warns, lists, exps, arg, fs, ret>>

(***************************************************************************)
(* Bounds of the model.                                                    *)
(***************************************************************************)
MaxLineLen == 3     \* longest log row enumerated for the evaluator
MaxTicks == 2       \* the clock advances at most this many times
MaxHist == 3        \* longest states_info explored
MaxWarnings == 1    \* longest warnings list explored
MaxLists == 2       \* list objects allocated on the heap
MaxLines == 2       \* longest output file explored, in lines

(***************************************************************************)
(* Python values.                                                          *)
(***************************************************************************)
None == [t |-> "None"]
Str(s) == [t |-> "str", v |-> s]
List(l) == [t |-> "list", v |-> l]
Dict(d) == [t |-> "dict", v |-> d]
Ref(r) == [t |-> "ref", v |-> r]

\* bool(x) as the conditional expressions of __init__ and update_state use it
Truthy(x) ==
    CASE x.t = "None" -> FALSE
      [] x.t = "str" -> x.v # ""
      [] x.t = "list" -> x.v # <<>>
      [] x.t = "dict" -> DOMAIN x.v # {}
      [] OTHER -> TRUE

(***************************************************************************)
(* Text: str.strip, slices, the `in` test on strings, float().             *)
(***************************************************************************)
Whitespace == {" "}
Digits == {"0", "1", "2", "3", "4", "5", "6", "7", "8", "9"}

Min(a, b) == IF a < b THEN a ELSE b

\* s[:n]
SliceTo(s, n) == SubSeq(s, 1, Min(n, Len(s)))

\* s[n:]
SliceFrom(s, n) == SubSeq(s, n + 1, Len(s))

\* s.strip()
Strip(s) ==
    LET keep == {i \in 1..Len(s) : s[i] \notin Whitespace}
    IN IF keep = {} THEN <<>>
       ELSE LET lo == CHOOSE i \in keep : \A j \in keep : i <= j
                hi == CHOOSE i \in keep : \A j \in keep : j <= i
            IN SubSeq(s, lo, hi)

\* sub in s
Contains(s, sub) ==
    \E i \in 0..(Len(s) - Len(sub)) : SubSeq(s, i + 1, i + Len(sub)) = sub

DigitVal(c) ==
    CASE c = "0" -> 0 [] c = "1" -> 1 [] c = "2" -> 2 [] c = "3" -> 3
      [] c = "4" -> 4 [] c = "5" -> 5 [] c = "6" -> 6 [] c = "7" -> 7
      [] c = "8" -> 8 [] c = "9" -> 9

RECURSIVE DecimalValue(_)
DecimalValue(ds) ==
    IF ds = <<>> THEN 0
    ELSE 10 * DecimalValue(SubSeq(ds, 1, Len(ds) - 1)) + DigitVal(ds[Len(ds)])

RECURSIVE Pow10(_)
Pow10(k) == IF k = 0 THEN 1 ELSE 10 * Pow10(k - 1)

\* A float is the exact rational n/d, d > 0 (the decimal literals handled here
\* are short enough to compare as rationals).
Rat(n, d) == [n |-> n, d |-> d]
RatLt(a, b) == a.n * b.d < b.n * a.d
RatEq(a, b) == a.n * b.d = b.n * a.d
RatGt(a, b) == RatLt(b, a)
RatGeq(a, b) == ~RatLt(a, b)
RatLeq(a, b) == ~RatLt(b, a)

\* float(s) for decimal literals: [sign] digits [. digits] with at least one
\* digit; anything else raises ValueError (ok = FALSE).  Exponents, inf and
\* nan need letters that the alphabets of this model do not hold.
float(s0) ==
    LET s == Strip(s0)
        signed == s # <<>> /\ s[1] \in {"-", "+"}
        body == IF signed THEN SliceFrom(s, 1) ELSE s
        dots == {i \in 1..Len(body) : body[i] = "."}
        wellformed == /\ \A i \in 1..Len(body) : body[i] \in Digits \cup {"."}
                      /\ Cardinality(dots) <= 1
                      /\ \E i \in 1..Len(body) : body[i] \in Digits
    IN IF ~wellformed THEN [ok |-> FALSE]
       ELSE LET dot == IF dots = {} THEN Len(body) + 1 ELSE CHOOSE i \in dots : TRUE
                int == SubSeq(body, 1, dot - 1)
                frac == SubSeq(body, dot + 1, Len(body))
                mag == DecimalValue(int \o frac)
            IN [ok |-> TRUE,
                v |-> Rat(IF signed /\ s[1] = "-" THEN 0 - mag ELSE mag,
                          Pow10(Len(frac)))]

(***************************************************************************)
(* ExperimentWarning                                                       *)
(***************************************************************************)
NoAction == "no action"
RaisedValueError == "raise ValueError"

\* ExperimentWarning.__init__ at wall-clock time t
ExperimentWarning(name, variablename, killvalue, comparator, when, action, t) ==
    [name |-> name,
     varname |-> Strip(variablename),
     killvalue |-> killvalue,
     comparator |-> comparator,
     when |-> Strip(when),
     action |-> action,
     start_time |-> t]

\* time_passed.days * 86400 + time_passed.seconds, for the timedelta t - start
TimePassedSec(t, start) ==
    LET delta == t - start
    IN (delta \div 86400) * 86400 + (delta % 86400)

\* the time-gate of get_action: "pass", "inert", or "error" when float() raises
TimeGate(self, t) ==
    IF Contains(self.when, <<"t", "i", "m", "e">>)
    THEN LET time_when == float(Strip(SliceFrom(self.when, 4)))
             time_passed_sec == TimePassedSec(t, self.start_time)
             time_passed_min == time_passed_sec \div 60
         IN IF ~time_when.ok THEN "error"
            ELSE IF RatLt(Rat(time_passed_min, 1), time_when.v) THEN "inert"
            ELSE "pass"
    ELSE "pass"

\* the comparison with gt and geq swapped
Compare_gt_geq_swapped(comparator, varvalue, killvalue) ==
    \/ comparator = "gt" /\ RatGeq(varvalue, killvalue)
    \/ comparator = "lt" /\ RatLt(varvalue, killvalue)
    \/ comparator = "eq" /\ RatEq(varvalue, killvalue)
    \/ comparator = "geq" /\ RatGt(varvalue, killvalue)
    \/ comparator = "leq" /\ RatLeq(varvalue, killvalue)

\* the any([...]) of get_action
Compare(comparator, varvalue, killvalue) ==
    \/ comparator = "gt" /\ RatGt(varvalue, killvalue)
    \/ comparator = "lt" /\ RatLt(varvalue, killvalue)
    \/ comparator = "eq" /\ RatEq(varvalue, killvalue)
    \/ comparator = "geq" /\ RatGeq(varvalue, killvalue)
    \/ comparator = "leq" /\ RatLeq(varvalue, killvalue)

\* get_action parsing what follows the first varlen characters whatever
\* those characters are
ExperimentWarning_get_action_any_prefix(self, logrow0, t) ==
    LET logrow == Strip(logrow0)
        varlen == Len(self.varname)
        gate == TimeGate(self, t)
        check_condition == gate = "pass"
    IN IF gate = "error" THEN RaisedValueError
       ELSE IF check_condition
       THEN LET varvalue == float(Strip(SliceFrom(logrow, varlen)))
            IN IF ~varvalue.ok THEN NoAction
               ELSE IF Compare(self.comparator, varvalue.v, self.killvalue)
               THEN self.action
               ELSE NoAction
       ELSE NoAction

\* ExperimentWarning.get_action(self, logrow) at wall-clock time t
ExperimentWarning_get_action(self, logrow0, t) ==
    LET logrow == Strip(logrow0)
        varlen == Len(self.varname)
        gate == TimeGate(self, t)
        check_condition == gate = "pass"
    IN IF gate = "error" THEN RaisedValueError
       ELSE IF check_condition /\ Strip(SliceTo(logrow, varlen)) = self.varname
       THEN LET varvalue == float(Strip(SliceFrom(logrow, varlen)))
            IN IF ~varvalue.ok THEN NoAction
               ELSE IF Compare(self.comparator, varvalue.v, self.killvalue)
               THEN self.action
               ELSE NoAction
       ELSE NoAction

(***************************************************************************)
(* Experiment                                                              *)
(***************************************************************************)
MANDATORY_FIELDS == {"run_command_prefix", "main_code_file"}

OPTIONAL_FIELDS ==
    {"parameters", "parameters_format", "outputs", "output_line_processor",
     "output_file_processor", "plot", "collection", "required_files",
     "conditions", "sbatch_args", "custom_msg"}

AUTOMATIC_FIELDS ==
    {"path", "time_created", "time_modified", "states_info", "cluster_id",
     "warnings"}

\* class Experiment.State
State ==
    {"defined", "submitted", "submitted_to_kid", "lost", "terminated",
     "running", "finished"}

\* os.path.basename of a path held as its sequence of components
Basename(path) == IF path = <<>> THEN "" ELSE path[Len(path)]

\* the default values of the keyword parameters of Experiment.__init__
InitDefaults ==
    [parameters |-> None, parameters_format |-> Str(""),
     required_files |-> None, outputs |-> None,
     output_line_processor |-> None, output_file_processor |-> None,
     collection |-> None, custom_msg |-> None, plot |-> None,
     conditions |-> None, sbatch_args |-> None]

KwArg(kw, k) == IF k \in DOMAIN kw THEN kw[k] ELSE InitDefaults[k]

\* Experiment.__init__(**kw) at wall-clock time t; wl is the reference of the
\* new list created for 'warnings'
Experiment(kw, t, wl) ==
    [exists |-> TRUE,
     _experiment_id |-> kw.experiment_id,
     _fields |->
        [run_command_prefix |-> kw.run_command_prefix,
         main_code_file |-> kw.main_code_file,
         required_files |-> IF Truthy(KwArg(kw, "required_files"))
                            THEN KwArg(kw, "required_files") ELSE List(<<>>),
         outputs |-> KwArg(kw, "outputs"),
         output_file_processor |-> KwArg(kw, "output_file_processor"),
         output_line_processor |-> KwArg(kw, "output_line_processor"),
         plot |-> KwArg(kw, "plot"),
         parameters |-> KwArg(kw, "parameters"),
         parameters_format |-> KwArg(kw, "parameters_format"),
         collection |-> IF Truthy(KwArg(kw, "collection"))
                        THEN KwArg(kw, "collection")
                        ELSE List(<<Basename(kw.path.v)>>),
         conditions |-> KwArg(kw, "conditions"),
         sbatch_args |-> KwArg(kw, "sbatch_args"),
         path |-> kw.path,
         time_created |-> t,
         time_modified |-> t,
         run_results |-> List(<<>>),
         states_info |-> List(<<<<"defined", t>>>>),
         cluster_id |-> None,
         warnings |-> Ref(wl),
         custom_msg |-> IF Truthy(KwArg(kw, "custom_msg"))
                        THEN KwArg(kw, "custom_msg") ELSE Str("")]]

\* a slot that holds no Experiment
NoExperiment == [exists |-> FALSE]

\* __getattr__('state'): fields['states_info'][-1][0]; IndexError on an empty list
HasState(e) == e._fields["states_info"].v # <<>>
state(e) ==
    LET si == e._fields["states_info"].v IN si[Len(si)][1]

\* __getattr__('state_info')
state_info(e) ==
    LET si == e._fields["states_info"].v IN si[Len(si)]

\* __getattr__('id')
id(e) == e._experiment_id

\* the ExperimentWarning references the record's conditions mapping holds
CondRefs(e) ==
    LET c == e._fields["conditions"]
    IN IF c.t = "dict" THEN {c.v[k].v : k \in DOMAIN c.v} ELSE {}

\* the iteration orders of a mapping with key set S
Orders(S) ==
    {o \in [1..Cardinality(S) -> S] : \A i, j \in DOMAIN o : o[i] = o[j] => i = j}

(***************************************************************************)
(* The operations of Experiment, as functions of the objects they touch.   *)
(* W is the heap of ExperimentWarning objects, L the heap of lists, t the  *)
(* wall-clock time of the call.                                            *)
(***************************************************************************)

\* update_state without its `if state == self.state: return`
update_state_always_appends(e, s, W, t) ==
    IF ~HasState(e) THEN [raised |-> "IndexError", exp |-> e, warns |-> W]
    ELSE [raised |-> "",
          warns |-> IF s = "running" /\ Truthy(e._fields["conditions"])
                    THEN [r \in DOMAIN W |->
                            IF r \in CondRefs(e)
                            THEN [W[r] EXCEPT !.start_time = t] ELSE W[r]]
                    ELSE W,
          exp |-> [e EXCEPT !._fields["states_info"] =
                                List(Append(@.v, <<s, t>>))]]

\* update_state re-arming the timers on every change of state
update_state_rearms_always(e, s, W, t) ==
    IF ~HasState(e) THEN [raised |-> "IndexError", exp |-> e, warns |-> W]
    ELSE IF s = state(e) THEN [raised |-> "", exp |-> e, warns |-> W]
    ELSE [raised |-> "",
          warns |-> IF Truthy(e._fields["conditions"])
                    THEN [r \in DOMAIN W |->
                            IF r \in CondRefs(e)
                            THEN [W[r] EXCEPT !.start_time = t] ELSE W[r]]
                    ELSE W,
          exp |-> [e EXCEPT !._fields["states_info"] =
                                List(Append(@.v, <<s, t>>))]]

\* Experiment.update_state(state): the record and the heap after the call
update_state(e, s, W, t) ==
    IF ~HasState(e) THEN [raised |-> "IndexError", exp |-> e, warns |-> W]
    ELSE IF s = state(e) THEN [raised |-> "", exp |-> e, warns |-> W]
    ELSE [raised |-> "",
          warns |-> IF s = "running" /\ Truthy(e._fields["conditions"])
                    THEN [r \in DOMAIN W |->
                            IF r \in CondRefs(e)
                            THEN [W[r] EXCEPT !.start_time = t] ELSE W[r]]
                    ELSE W,
          exp |-> [e EXCEPT !._fields["states_info"] =
                                List(Append(@.v, <<s, t>>))]]

\* the message set_warning builds: str(now) + ": The condition '" + warning
\* + "' was met", kept as its two variable parts
Message(t, warning) == <<t, warning>>

\* Experiment.set_warning(warning): the heap of lists after the call
set_warning(e, warning, L, t) ==
    [L EXCEPT ![e._fields["warnings"].v] = Append(@, Message(t, warning))]

\* Experiment.set_multiple_warnings(warnings), warnings a reference to the
\* caller's list: the record after the call
set_multiple_warnings(e, warnings) ==
    [e EXCEPT !._fields["warnings"] = warnings]

\* Experiment.get_warnings()
get_warnings(e, L) == L[e._fields["warnings"].v]

\* the loop with `kill` remembered like any other label instead of returned
RECURSIVE get_action_loop_kill_remembered(_, _, _, _, _, _, _)
get_action_loop_kill_remembered(conditions, order, i, logrow, init_action, W, t) ==
    IF i > Len(order) THEN init_action
    ELSE LET key == order[i]
             action == ExperimentWarning_get_action(W[conditions[key].v], logrow, t)
         IN IF action = RaisedValueError THEN <<RaisedValueError, key>>
            ELSE IF action # NoAction
            THEN get_action_loop_kill_remembered(conditions, order, i + 1,
                                                 logrow, <<action, key>>, W, t)
            ELSE get_action_loop_kill_remembered(conditions, order, i + 1,
                                                 logrow, init_action, W, t)

\* the loop with the first non-kill firing kept and later ones ignored
RECURSIVE get_action_loop_first_kept(_, _, _, _, _, _, _)
get_action_loop_first_kept(conditions, order, i, logrow, init_action, W, t) ==
    IF i > Len(order) THEN init_action
    ELSE LET key == order[i]
             action == ExperimentWarning_get_action(W[conditions[key].v], logrow, t)
         IN IF action = RaisedValueError THEN <<RaisedValueError, key>>
            ELSE IF action = "kill" THEN <<action, key>>
            ELSE IF action # NoAction /\ init_action[1] = NoAction
            THEN get_action_loop_first_kept(conditions, order, i + 1, logrow,
                                            <<action, key>>, W, t)
            ELSE get_action_loop_first_kept(conditions, order, i + 1, logrow,
                                            init_action, W, t)

\* the loop of Experiment.get_action over the keys in iteration order `order`,
\* from position i on, with init_action as remembered so far
RECURSIVE get_action_loop(_, _, _, _, _, _, _)
get_action_loop(conditions, order, i, logrow, init_action, W, t) ==
    IF i > Len(order) THEN init_action
    ELSE LET key == order[i]
             action == ExperimentWarning_get_action(W[conditions[key].v], logrow, t)
         IN IF action = RaisedValueError THEN <<RaisedValueError, key>>
            ELSE IF action = "kill" THEN <<action, key>>
            ELSE IF action # NoAction
            THEN get_action_loop(conditions, order, i + 1, logrow,
                                 <<action, key>>, W, t)
            ELSE get_action_loop(conditions, order, i + 1, logrow,
                                 init_action, W, t)

\* get_action without its `except TypeError`
Experiment_get_action_uncaught(e, logrow, order, W, t) ==
    LET init_action == <<NoAction, "">>
        conditions == e._fields["conditions"]
    IN IF conditions.t = "dict"
       THEN get_action_loop(conditions.v, order, 1, logrow, init_action, W, t)
       ELSE <<"raise TypeError", "">>

\* Experiment.get_action(logrow): iterating None raises TypeError, which the
\* except clause turns into init_action
Experiment_get_action(e, logrow, order, W, t) ==
    LET init_action == <<NoAction, "">>
        conditions == e._fields["conditions"]
    IN IF conditions.t = "dict"
       THEN get_action_loop(conditions.v, order, 1, logrow, init_action, W, t)
       ELSE init_action

\* a tuple, as __getattr__('state_info') returns one
Tuple(x) == [t |-> "tuple", v |-> x]

\* Experiment.__getattr__(attr), reached when normal lookup finds nothing: a
\* key of _fields, then id, state, state_info, then the instance attribute
\* named '_' + attr (of which the object has _fields and _experiment_id)
getattr(e, attr) ==
    IF attr \in DOMAIN e._fields
    THEN [raised |-> "", value |-> e._fields[attr]]
    ELSE IF attr = "state"
    THEN IF HasState(e) THEN [raised |-> "", value |-> Str(state(e))]
         ELSE [raised |-> "IndexError", value |-> None]
    ELSE IF attr = "state_info"
    THEN IF HasState(e) THEN [raised |-> "", value |-> Tuple(state_info(e))]
         ELSE [raised |-> "IndexError", value |-> None]
    ELSE LET name == IF attr = "id" THEN "experiment_id" ELSE attr
         IN IF name = "experiment_id"
            THEN [raised |-> "", value |-> id(e)]
            ELSE IF name = "fields"
            THEN [raised |-> "", value |-> Dict(e._fields)]
            ELSE [raised |-> "AttributeError", value |-> None]

\* Experiment.__setattr__(attr, value)
setattr(e, attr, value) ==
    IF attr = "id" \/ attr = "experiment_id"
    THEN [raised |-> "", exp |-> [e EXCEPT !._experiment_id = value]]
    ELSE IF attr \in DOMAIN e._fields \/ attr \in {"log_output"}
    THEN [raised |-> "",
          exp |-> [e EXCEPT !._fields =
                     [a \in DOMAIN e._fields \cup {attr} |->
                        IF a = attr THEN value ELSE e._fields[a]]]]
    ELSE [raised |-> "AttributeError", exp |-> e]

(***************************************************************************)
(* Output extraction and plotting.  File names, processor specs, keys and   *)
(* lines are text; a file is the sequence of its lines.  What the user's    *)
(* modules define and what the disk holds are the environment.              *)
(***************************************************************************)
Num(n) == [t |-> "int", v |-> n]

\* shlex.split(s) for text without quotes or escapes: the whitespace-separated
\* tokens
RECURSIVE shlex_split(_)
shlex_split(s) ==
    LET text == Strip(s)
        sp == {i \in 1..Len(text) : text[i] \in Whitespace}
        end == IF sp = {} THEN Len(text) + 1
               ELSE CHOOSE i \in sp : \A j \in sp : i <= j
    IN IF text = <<>> THEN <<>>
       ELSE <<SubSeq(text, 1, end - 1)>>
                \o shlex_split(SubSeq(text, end + 1, Len(text)))

\* the (module, function) pairs neronet.core.import_from can import; any
\* other pair raises
Importable ==
    {<<<<"m">>, <<"f">>>>, <<<<"m">>, <<"l">>>>,
     <<<<"m">>, <<"p">>>>, <<<<"m">>, <<"q">>>>}

\* the user's per-line reader m.l: a line `<key><digit>` yields {key: digit},
\* a blank line yields {}, the line `#` yields None and the line `!` raises
LineResult(line) ==
    IF line = <<"!">> THEN [raised |-> "ValueError", value |-> None]
    ELSE IF line = <<"#">> THEN [raised |-> "", value |-> None]
    ELSE IF Len(line) = 2 /\ line[2] \in Digits
    THEN [raised |-> "",
          value |-> Dict([k \in {SliceTo(line, 1)} |-> Num(DigitVal(line[2]))])]
    ELSE [raised |-> "", value |-> Dict([k \in {} |-> None])]

\* the user's whole-file reader m.f: {key: the last digit reported for key};
\* None when the file has a line `#`, and it raises when it has a line `!`
FileResult(content) ==
    LET at(k) == {i \in 1..Len(content) :
                    Len(content[i]) = 2 /\ content[i][2] \in Digits
                    /\ SliceTo(content[i], 1) = k}
        keys == {k \in {SliceTo(content[i], 1) : i \in 1..Len(content)} :
                    at(k) # {}}
        last(k) == CHOOSE i \in at(k) : \A j \in at(k) : j <= i
    IN IF \E i \in 1..Len(content) : content[i] = <<"!">>
       THEN [raised |-> "ValueError", value |-> None]
       ELSE IF \E i \in 1..Len(content) : content[i] = <<"#">>
       THEN [raised |-> "", value |-> None]
       ELSE [raised |-> "",
             value |-> Dict([k \in keys |-> Num(DigitVal(content[last(k)][2]))])]

\* reader(text, *reader_args) for an imported reader
Call(reader_name, text) ==
    IF reader_name = <<"f">> THEN FileResult(text) ELSE LineResult(text)

\* a file on disk, and the absence of one
File(content) == [exists |-> TRUE, lines |-> content]
NoFile == [exists |-> FALSE]

\* the output file name the configurations register, and one they do not
OUT == <<"o">>
OTHER_FILE == <<"g">>

\* the directory experiments of id e1 write to before they finish, and the
\* directory of a finished run
RESULTS_E1 == <<"results", "e1">>
RUN_1 == <<"run1">>

\* os.path.join(directory, filename), for the places an output can be
Paths == {<<d, OUT>> : d \in {RESULTS_E1, RUN_1}}

NoFiles == [path \in Paths |-> NoFile]

\* Experiment.get_results_dir()
get_results_dir(e) ==
    IF ~HasState(e) THEN [raised |-> "IndexError", value |-> <<>>]
    ELSE IF state(e) = "finished"
    THEN LET run_results == e._fields["run_results"].v
         IN IF run_results = <<>>
            THEN [raised |-> "IndexError", value |-> <<>>]
            ELSE [raised |-> "", value |-> run_results[Len(run_results)]]
    ELSE [raised |-> "", value |-> <<"results", id(e).v>>]

\* the merge with data[key] = [value] for every key of the line
Accumulate_overwrites(data, line_data) ==
    [key \in DOMAIN data \cup DOMAIN line_data |->
        IF key \notin DOMAIN line_data THEN data[key]
        ELSE List(<<line_data[key]>>)]

\* the merge of one line's mapping into data: data[key] = [value] for a new
\* key, data[key].append(value) otherwise
Accumulate(data, line_data) ==
    [key \in DOMAIN data \cup DOMAIN line_data |->
        IF key \notin DOMAIN line_data THEN data[key]
        ELSE IF key \notin DOMAIN data THEN List(<<line_data[key]>>)
        ELSE List(Append(data[key].v, line_data[key]))]

\* the loop `for line in f` of get_output from line i on.  The type test of
\* the loop is on data, which is a dict, so it never raises; iteritems() of
\* a result that is no dict raises AttributeError.
RECURSIVE line_loop(_, _, _, _)
line_loop(reader_name, content, i, data) ==
    IF i > Len(content) THEN [raised |-> "", data |-> Dict(data)]
    ELSE LET line_data == Call(reader_name, content[i])
         IN IF line_data.raised # ""
            THEN [raised |-> "OutputReadError", data |-> None]
            ELSE IF line_data.value.t # "dict"
            THEN [raised |-> "AttributeError", data |-> None]
            ELSE line_loop(reader_name, content, i + 1,
                           Accumulate(data, line_data.value.v))

\* the result of the whole-file reader, checked: an exception or a result
\* that is no dict raises OutputReadError
file_data(r) ==
    IF r.raised # "" \/ r.value.t # "dict"
    THEN [raised |-> "OutputReadError", data |-> None]
    ELSE [raised |-> "", data |-> r.value]

\* the `with open(...)` block of get_output: results_dir is what
\* get_results_dir() did, F the file system
read_output(processor_type, reader_name, filename, F, results_dir) ==
    IF results_dir.raised # ""
    THEN [raised |-> results_dir.raised, data |-> None]
    ELSE IF <<results_dir.value, filename>> \notin DOMAIN F
            \/ ~F[<<results_dir.value, filename>>].exists
    THEN [raised |-> "IOError", data |-> None]
    ELSE IF processor_type = "output_file_processor"
    THEN file_data(Call(reader_name, F[<<results_dir.value, filename>>].lines))
    ELSE line_loop(reader_name, F[<<results_dir.value, filename>>].lines, 1,
                   [k \in {} |-> None])

\* the construction of the reader from the tokens of its spec, then the read
construct_reader(e, processor_type, filename, F, args) ==
    IF Len(args) < 2 THEN [raised |-> "OutputReadError", data |-> None]
    ELSE IF <<args[1], args[2]>> \notin Importable
    THEN [raised |-> "OutputReadError", data |-> None]
    ELSE read_output(processor_type, args[2], filename, F, get_results_dir(e))

\* one pass of the loop over the processor types in get_output, data being
\* what the passes before left
process(e, processor_type, filename, F, data) ==
    IF ~Truthy(e._fields[processor_type])
       \/ filename \notin DOMAIN e._fields[processor_type].v
    THEN [raised |-> "", data |-> data]
    ELSE construct_reader(e, processor_type, filename, F,
                          shlex_split(e._fields[processor_type].v[filename].v))

\* the second pass of the loop, after what the first pass did
line_pass(e, filename, F, first) ==
    IF first.raised # "" THEN first
    ELSE process(e, "output_line_processor", filename, F, first.data)

\* the end of get_output: `if not data: raise`, else `return data`
return_data(r) ==
    IF r.raised # "" THEN [raised |-> r.raised, value |-> None]
    ELSE IF ~Truthy(r.data) THEN [raised |-> "OutputReadError", value |-> None]
    ELSE [raised |-> "", value |-> r.data]

\* Experiment.get_output(filename), F being the file system: the loop runs
\* both passes, the whole-file pass first
get_output(e, filename, F) ==
    return_data(
        line_pass(e, filename, F,
                  process(e, "output_file_processor", filename, F, None)))

\* the user's plotting functions: m.p returns a new feedback object made of
\* what it was called with, m.q raises
Plot(plotter_name, path, feedback, plot_data) ==
    IF plotter_name = <<"p">>
    THEN [raised |-> "", value |-> Tuple(<<path, feedback, plot_data>>)]
    ELSE [raised |-> "RuntimeError", value |-> None]

\* the plot arguments with the keys of the output replaced by (key, values)
plot_data(plot_args, output) ==
    [n \in 1..Len(plot_args) |->
        IF plot_args[n] \in DOMAIN output.v
        THEN Tuple(<<plot_args[n], output.v[plot_args[n]]>>)
        ELSE Str(plot_args[n])]

\* the final try block of plotter: any exception becomes PlotError
call_plotter(results_dir, plotter_name, plot_name, feedback, data) ==
    IF results_dir.raised # "" THEN [raised |-> "PlotError", value |-> None]
    ELSE IF Plot(plotter_name, <<results_dir.value, plot_name>>, feedback,
                 data).raised # ""
    THEN [raised |-> "PlotError", value |-> None]
    ELSE Plot(plotter_name, <<results_dir.value, plot_name>>, feedback, data)

\* plotter after get_output: its exception propagates as it is
plot_output(e, plot_name, feedback, args, output) ==
    IF output.raised # "" THEN [raised |-> output.raised, value |-> None]
    ELSE call_plotter(get_results_dir(e), args[2], plot_name, feedback,
                      plot_data(SubSeq(args, 4, Len(args)), output.value))

\* the construction of the plotting function from the tokens of the plot
\* spec, then the read of the output file
construct_plotter(e, plot_name, feedback, F, args) ==
    IF Len(args) < 3 THEN [raised |-> "PlotError", value |-> None]
    ELSE IF <<args[1], args[2]>> \notin Importable
    THEN [raised |-> "PlotError", value |-> None]
    ELSE plot_output(e, plot_name, feedback, args, get_output(e, args[3], F))

\* Experiment.plotter(plot_name, feedback); `plot_name not in self.plot`
\* raises TypeError when plot is None
plotter(e, plot_name, feedback, F) ==
    IF e._fields["plot"].t # "dict" THEN [raised |-> "TypeError", value |-> None]
    ELSE IF plot_name \notin DOMAIN e._fields["plot"].v
    THEN [raised |-> "PlotError", value |-> None]
    ELSE construct_plotter(e, plot_name, feedback, F,
                           shlex_split(e._fields["plot"].v[plot_name].v))

\* duplicate_experiment(experiment, experiment_id) at time t; wl is the
\* reference of the list the new record creates for its warnings
duplicate_experiment(experiment, experiment_id, t, wl) ==
    LET definable_fields == MANDATORY_FIELDS \cup OPTIONAL_FIELDS
        experiment_data ==
            [field \in definable_fields \cup {"experiment_id", "path"} |->
                IF field = "experiment_id" THEN experiment_id
                ELSE experiment._fields[field]]
    IN Experiment(experiment_data, t, wl)

(***************************************************************************)
(* The configurations and inputs explored.                                 *)
(***************************************************************************)
TIME_1 == <<"t", "i", "m", "e", " ", "1">>
IMMEDIATELY == <<"i", "m", "m", "e", "d", "i", "a", "t", "e", "l", "y">>

\* the Condition Specs a config may attach, by name: a time-gated kill and
\* two warn-style conditions, all watching the variable "a"
CondPool ==
    [k |-> [variablename |-> <<"a">>, killvalue |-> Rat(1, 1),
            comparator |-> "gt", when |-> TIME_1, action |-> "kill"],
     w |-> [variablename |-> <<"a", " ">>, killvalue |-> Rat(1, 1),
            comparator |-> "geq", when |-> IMMEDIATELY, action |-> "warn"],
     x |-> [variablename |-> <<"a">>, killvalue |-> Rat(2, 1),
            comparator |-> "leq", when |-> IMMEDIATELY, action |-> "mail"]]

\* the ExperimentWarning objects of the conditions named in K, built at time t
NewWarnings(K, t) ==
    [c \in K |->
        ExperimentWarning(c, CondPool[c].variablename, CondPool[c].killvalue,
                          CondPool[c].comparator, CondPool[c].when,
                          CondPool[c].action, t)]

\* the log rows handed to Experiment.get_action
LogRows ==
    {<<"a", " ", "1">>, <<" ", "a", " ", "2", " ">>, <<"a", " ", "3">>,
     <<"b", " ", "2">>}

\* the keyword arguments the first record is constructed with
FirstKw(conditions) ==
    [experiment_id |-> Str("e1"),
     run_command_prefix |-> Str("python"),
     main_code_file |-> Str("main.py"),
     path |-> Str(<<"home", "exp">>),
     conditions |-> conditions]

ExpSlots == {1, 2}

Exists(i) == exps[i].exists

(***************************************************************************)
(* Actions: one per operation a caller can invoke.                         *)
(***************************************************************************)

\* wall-clock time passes
Tick ==
    /\ now < 30 * MaxTicks
    /\ now' = now + 30
    /\ ret' = [op |-> "tick"]
    /\ UNCHANGED <<warns, lists, exps, arg, fs>>

\* exps[i].update_state(s)
UpdateState(i, s) ==
    /\ Exists(i)
    /\ LET r == update_state(exps[i], s, warns, now)
       IN /\ Len(r.exp._fields["states_info"].v) <= MaxHist
          /\ exps' = [exps EXCEPT ![i] = r.exp]
          /\ warns' = r.warns
          /\ ret' = [op |-> "update_state", exp |-> i, state |-> s,
                     raised |-> r.raised]
    /\ UNCHANGED <<now, lists, arg, fs>>

\* exps[i].set_warning(warning)
SetWarning(i, warning) ==
    /\ Exists(i)
    /\ Len(get_warnings(exps[i], lists)) < MaxWarnings
    /\ lists' = set_warning(exps[i], warning, lists, now)
    /\ ret' = [op |-> "set_warning", exp |-> i]
    /\ UNCHANGED <<now, warns, exps, arg, fs>>

\* exps[i].set_multiple_warnings(l), l a list the caller already holds: one it
\* built earlier or one that get_warnings() returned
SetMultipleWarnings(i, l) ==
    /\ Exists(i)
    /\ l \in DOMAIN lists
    /\ exps' = [exps EXCEPT ![i] = set_multiple_warnings(exps[i], Ref(l))]
    /\ ret' = [op |-> "set_multiple_warnings", exp |-> i]
    /\ UNCHANGED <<now, warns, lists, arg, fs>>

\* exps[i].set_multiple_warnings(l), l a list the caller builds for the call
SetMultipleWarningsNew(i, content) ==
    /\ Exists(i)
    /\ Len(lists) < MaxLists
    /\ lists' = Append(lists, content)
    /\ exps' = [exps EXCEPT
                 ![i] = set_multiple_warnings(exps[i], Ref(Len(lists) + 1))]
    /\ ret' = [op |-> "set_multiple_warnings", exp |-> i]
    /\ UNCHANGED <<now, warns, arg, fs>>

\* get_action recording a non-kill firing itself instead of leaving it to
\* the driver
GetAction_records_warning(i, logrow) ==
    /\ Exists(i)
    /\ LET c == exps[i]._fields["conditions"]
       IN \E order \in (IF c.t = "dict" THEN Orders(DOMAIN c.v) ELSE {<<>>}) :
            LET value == Experiment_get_action(exps[i], logrow, order, warns, now)
            IN /\ ret' = [op |-> "get_action", exp |-> i, logrow |-> logrow,
                          order |-> order, value |-> value]
               /\ lists' = IF value[1] \in {NoAction, "kill"} THEN lists
                           ELSE set_warning(exps[i], value[2], lists, now)
    /\ UNCHANGED <<now, warns, exps, arg, fs>>

\* exps[i].get_action(logrow), the mapping iterated in some order
GetAction(i, logrow) ==
    /\ Exists(i)
    /\ LET c == exps[i]._fields["conditions"]
       IN \E order \in (IF c.t = "dict" THEN Orders(DOMAIN c.v) ELSE {<<>>}) :
            ret' = [op |-> "get_action", exp |-> i, logrow |-> logrow,
                    order |-> order,
                    value |-> Experiment_get_action(exps[i], logrow, order,
                                                    warns, now)]
    /\ UNCHANGED <<now, warns, lists, exps, arg, fs>>

\* setattr(exps[i], attr, value)
SetAttr(i, attr, value) ==
    /\ Exists(i)
    /\ LET r == setattr(exps[i], attr, value)
       IN /\ exps' = [exps EXCEPT ![i] = r.exp]
          /\ ret' = [op |-> "setattr", exp |-> i, attr |-> attr,
                     raised |-> r.raised]
    /\ UNCHANGED <<now, warns, lists, arg, fs>>

\* getattr(exps[i], attr)
GetAttr(i, attr) ==
    /\ Exists(i)
    /\ LET r == getattr(exps[i], attr)
       IN ret' = [op |-> "getattr", exp |-> i, attr |-> attr,
                  raised |-> r.raised, value |-> r.value]
    /\ UNCHANGED <<now, warns, lists, exps, arg, fs>>

\* exps[i].get_output(filename)
GetOutput(i, filename) ==
    /\ Exists(i)
    /\ LET r == get_output(exps[i], filename, fs)
       IN ret' = [op |-> "get_output", exp |-> i, filename |-> filename,
                  raised |-> r.raised, value |-> r.value]
    /\ UNCHANGED <<now, warns, lists, exps, arg, fs>>

\* exps[i].plotter(plot_name, feedback)
Plotter(i, plot_name, feedback) ==
    /\ Exists(i)
    /\ LET r == plotter(exps[i], plot_name, feedback, fs)
       IN ret' = [op |-> "plotter", exp |-> i, plot_name |-> plot_name,
                  feedback |-> feedback, raised |-> r.raised,
                  value |-> r.value]
    /\ UNCHANGED <<now, warns, lists, exps, arg, fs>>

\* exps[dst] = duplicate_experiment(exps[src], experiment_id)
Duplicate(src, dst, experiment_id) ==
    /\ Exists(src)
    /\ ~Exists(dst)
    /\ Len(lists) < MaxLists
    /\ lists' = Append(lists, <<>>)
    /\ exps' = [exps EXCEPT
                 ![dst] = duplicate_experiment(exps[src], experiment_id, now,
                                               Len(lists) + 1)]
    /\ ret' = [op |-> "duplicate_experiment", exp |-> dst, src |-> src]
    /\ UNCHANGED <<now, warns, arg, fs>>

(***************************************************************************)
(* Specifications.                                                         *)
(***************************************************************************)

\* the state after `Experiment(**FirstKw(conditions))`, the ExperimentWarning
\* objects of the config having been built just before
InitWith(conditions, W) ==
    /\ now = 0
    /\ warns = W
    /\ lists = <<<<>>>>
    /\ exps = [i \in ExpSlots |->
                IF i = 1 THEN Experiment(FirstKw(conditions), 0, 1)
                ELSE NoExperiment]
    /\ arg = <<>>
    /\ fs = NoFiles
    /\ ret = [op |-> "init"]

\* a record with any subset of the pool attached, or with no mapping at all
InitMon ==
    \/ InitWith(None, <<>>)
    \/ \E K \in {{}, {"k"}, {"w", "x"}, {"k", "w", "x"}} :
          InitWith(Dict([c \in K |-> Ref(c)]), NewWarnings(K, 0))

\* a record with the whole pool attached, or with no mapping at all
InitLife ==
    \/ InitWith(None, <<>>)
    \/ InitWith(Dict([c \in DOMAIN CondPool |-> Ref(c)]),
                NewWarnings(DOMAIN CondPool, 0))

\* one record through its lifecycle, every state of State as input
NextLife ==
    \/ Tick
    \/ \E s \in State : UpdateState(1, s)

SpecLife == InitLife /\ [][NextLife]_vars

\* one record being monitored: log rows arrive while it starts and finishes
NextMon ==
    \/ Tick
    \/ \E s \in {"running", "finished"} : UpdateState(1, s)
    \/ \E logrow \in LogRows : GetAction(1, logrow)

SpecMon == InitMon /\ [][NextMon]_vars

\* a record with a gated and an ungated condition attached
Init ==
    InitWith(Dict([c \in {"k", "x"} |-> Ref(c)]), NewWarnings({"k", "x"}, 0))

\* a record and its duplicate, each driven by its own caller
Next ==
    \/ Tick
    \/ \E experiment_id \in {Str("e1"), Str("e2")} : Duplicate(1, 2, experiment_id)
    \/ \E i \in ExpSlots, s \in {"running", "finished"} : UpdateState(i, s)
    \/ \E i \in ExpSlots : GetAction(i, <<"a", " ", "2">>)

Spec == Init /\ [][Next]_vars

\* a record and its duplicate, their histories written by their callers
NextWarn ==
    \/ \E experiment_id \in {Str("e1"), Str("e2")} : Duplicate(1, 2, experiment_id)
    \/ \E i \in ExpSlots, s \in {"running", "finished"} : UpdateState(i, s)
    \/ \E i \in ExpSlots, warning \in {"k", "x"} : SetWarning(i, warning)
    \/ \E i \in ExpSlots, l \in 1..MaxLists : SetMultipleWarnings(i, l)
    \/ \E i \in ExpSlots : SetMultipleWarningsNew(i, <<>>)

SpecWarn == Init /\ [][NextWarn]_vars

\* one record with every operation of the monitoring driver
NextOps ==
    \/ Tick
    \/ \E s \in {"running", "finished"} : UpdateState(1, s)
    \/ GetAction(1, <<"a", " ", "2">>)
    \/ SetWarning(1, "k")
    \/ \E l \in 1..MaxLists : SetMultipleWarnings(1, l)

\* the record of Init, its caller holding a list of its own (reference 2)
InitOps ==
    /\ now = 0
    /\ warns = NewWarnings({"k", "x"}, 0)
    /\ lists = <<<<>>, <<>>>>
    /\ exps = [i \in ExpSlots |->
                IF i = 1
                THEN Experiment(FirstKw(Dict([c \in {"k", "x"} |-> Ref(c)])), 0, 1)
                ELSE NoExperiment]
    /\ arg = <<>>
    /\ fs = NoFiles
    /\ ret = [op |-> "init"]

SpecOps == InitOps /\ [][NextOps]_vars

\* the attribute writes explored: a field of each kind, the id, the extra
\* name the setter lets through, and a name it refuses
AttrWrites ==
    {<<"states_info", List(<<>>)>>,
     <<"states_info", List(<<<<"finished", 0>>>>)>>,
     <<"cluster_id", Str("c1")>>,
     <<"id", Str("e2")>>,
     <<"log_output", Str("out")>>,
     <<"logoutput", Str("out")>>}

\* the attribute reads explored: a declared field, the derived views, the
\* names of the writes above, and names that are not declared fields
AttrReads ==
    {"cluster_id", "id", "state", "state_info", "log_output", "logoutput",
     "run_results", "experiment_id", "fields"}

\* one record with its fields written and read through the attribute setter
NextAttr ==
    \/ \E s \in {"running", "finished"} : UpdateState(1, s)
    \/ GetAction(1, <<"a", " ", "2">>)
    \/ SetWarning(1, "k")
    \/ SetMultipleWarningsNew(1, <<>>)
    \/ \E w \in AttrWrites : SetAttr(1, w[1], w[2])
    \/ \E attr \in AttrReads : GetAttr(1, attr)

SpecAttr == Init /\ [][NextAttr]_vars

(***************************************************************************)
(* The evaluator alone: one ExperimentWarning, built at time 0 from drawn  *)
(* arguments, is asked about one drawn log row as time passes.             *)
(***************************************************************************)
Alphabet == {"a", " ", "1", "2", "-"}

\* every log row of at most MaxLineLen characters
AllLogRows == UNION {[1..n -> Alphabet] : n \in 0..MaxLineLen}

Comparators == {"gt", "lt", "eq", "geq", "leq"}

InitEval ==
    /\ now = 0
    /\ \E comparator \in Comparators, killvalue \in {Rat(1, 1), Rat(2, 1)},
          when \in {IMMEDIATELY, TIME_1}, action \in {"kill", "warn"} :
          warns = [c \in {"c"} |->
                     ExperimentWarning("c", <<"a">>, killvalue, comparator,
                                       when, action, 0)]
    /\ lists = <<>>
    /\ exps = [i \in ExpSlots |-> NoExperiment]
    /\ arg \in AllLogRows
    /\ fs = NoFiles
    /\ ret = [op |-> "init"]

\* warns["c"].get_action(arg)
Evaluate ==
    /\ ret' = [op |-> "ExperimentWarning.get_action",
               value |-> ExperimentWarning_get_action(warns["c"], arg, now)]
    /\ UNCHANGED <<now, warns, lists, exps, arg, fs>>

NextEval ==
    \/ Tick
    \/ Evaluate

SpecEval == InitEval /\ [][NextEval]_vars

\* gate values with and without a fraction
TIME_HALF == <<"t", "i", "m", "e", " ", "0", ".", "5">>
TIME_ONE_AND_HALF == <<"t", "i", "m", "e", " ", "1", ".", "5">>
TIME_2 == <<"t", "i", "m", "e", " ", "2">>

Gates == {TIME_HALF, TIME_1, TIME_ONE_AND_HALF, TIME_2}

\* one time-gated ExperimentWarning, built at time 0, asked about a row as
\* time passes
InitGate ==
    /\ now = 0
    /\ \E comparator \in Comparators, killvalue \in {Rat(1, 1), Rat(2, 1)},
          when \in Gates, action \in {"kill", "warn"} :
          warns = [c \in {"c"} |->
                     ExperimentWarning("c", <<"a">>, killvalue, comparator,
                                       when, action, 0)]
    /\ lists = <<>>
    /\ exps = [i \in ExpSlots |-> NoExperiment]
    /\ arg \in {<<"a", " ", "1">>, <<"a", " ", "2">>, <<"b", " ", "2">>}
    /\ fs = NoFiles
    /\ ret = [op |-> "init"]

SpecGate == InitGate /\ [][NextEval]_vars

(***************************************************************************)
(* Output extraction: one record with processors registered for the file   *)
(* OUT, an output file on disk or none, read before and after the run      *)
(* finishes.                                                               *)
(***************************************************************************)

\* the keyword arguments of a record with output processors and plots
OutKw(output_file_processor, output_line_processor, plot) ==
    [experiment_id |-> Str("e1"),
     run_command_prefix |-> Str("python"),
     main_code_file |-> Str("main.py"),
     path |-> Str(<<"home", "exp">>),
     output_file_processor |-> output_file_processor,
     output_line_processor |-> output_line_processor,
     plot |-> plot]

\* a mapping that registers one spec string under one name
Registry(name, spec) == Dict([k \in {name} |-> Str(spec)])

\* processor specs: `m f` and `m l` name the two readers, `m` lacks the
\* function name, `m z` names a function the module does not define
FileProcessors ==
    {None, Registry(OUT, <<"m", " ", "f">>), Registry(OUT, <<"m">>),
     Registry(OUT, <<"m", " ", "z">>)}

LineProcessors ==
    {None, Dict([k \in {} |-> None]), Registry(OUT, <<"m", " ", "l">>),
     Registry(OUT, <<"m", " ", "z">>)}

\* the lines an output file is made of
Lines == {<<"a", "1">>, <<"a", "2">>, <<"b", "1">>, <<"#">>, <<"!">>, <<>>}

Contents == UNION {[1..n -> Lines] : n \in 0..MaxLines}

\* the disk: an output file, or none, in each of the two directories
Disk(results, run) ==
    [path \in Paths |-> IF path[1] = RESULTS_E1 THEN results ELSE run]

InitOut ==
    /\ now = 0
    /\ warns = <<>>
    /\ lists = <<<<>>>>
    /\ \E fp \in FileProcessors, lp \in LineProcessors :
          exps = [i \in ExpSlots |->
                    IF i = 1 THEN Experiment(OutKw(fp, lp, None), 0, 1)
                    ELSE NoExperiment]
    /\ arg = <<>>
    /\ \E results \in {NoFile} \cup {File(c) : c \in Contents},
          run \in {NoFile, File(<<<<"a", "2">>>>)} :
          fs = Disk(results, run)
    /\ ret = [op |-> "init"]

\* the run finishes and its directory is recorded, outputs being read
NextOut ==
    \/ UpdateState(1, "finished")
    \/ SetAttr(1, "run_results", List(<<RUN_1>>))
    \/ \E filename \in {OUT, OTHER_FILE} : GetOutput(1, filename)

SpecOut == InitOut /\ [][NextOut]_vars

\* the plot name the configurations define, and one they do not
FIG == <<"i">>
OTHER_FIG == <<"j">>

\* plot specs: `m p o a` plots key a of file o with m.p, `m q o a x` with
\* the failing m.q, `m p` lacks the file name, `m z o` names no function,
\* `m p g` reads a file no processor is registered for
Plots ==
    {None,
     Registry(FIG, <<"m", " ", "p", " ", "o", " ", "a">>),
     Registry(FIG, <<"m", " ", "q", " ", "o", " ", "a", " ", "x">>),
     Registry(FIG, <<"m", " ", "p">>),
     Registry(FIG, <<"m", " ", "z", " ", "o">>),
     Registry(FIG, <<"m", " ", "p", " ", "g">>)}

InitPlot ==
    /\ now = 0
    /\ warns = <<>>
    /\ lists = <<<<>>>>
    /\ \E plot \in Plots :
          exps = [i \in ExpSlots |->
                    IF i = 1
                    THEN Experiment(OutKw(Registry(OUT, <<"m", " ", "f">>),
                                          None, plot), 0, 1)
                    ELSE NoExperiment]
    /\ arg = <<>>
    /\ \E results \in {NoFile, File(<<<<"a", "1">>>>),
                       File(<<<<"a", "1">>, <<"b", "1">>>>), File(<<<<"!">>>>)},
          run \in {NoFile, File(<<<<"a", "2">>>>)} :
          fs = Disk(results, run)
    /\ ret = [op |-> "init"]

\* plots are drawn before and after the run finishes
NextPlot ==
    \/ UpdateState(1, "finished")
    \/ SetAttr(1, "run_results", List(<<RUN_1>>))
    \/ \E plot_name \in {FIG, OTHER_FIG}, feedback \in {None, Str("fb")} :
          Plotter(1, plot_name, feedback)

SpecPlot == InitPlot /\ [][NextPlot]_vars

(***************************************************************************)
(* Claims.                                                                 *)
(***************************************************************************)
states_info(i) == exps[i]._fields["states_info"].v

\* no two adjacent entries of the list carry the same state
NoAdjacentRepeat(si) ==
    \A n \in 1..(Len(si) - 1) : si[n][1] # si[n + 1][1]

\* the step is the call exps[i].update_state(s) on a record that has a state
IsUpdateState(i, s) ==
    /\ ret'.op = "update_state" /\ ret'.exp = i /\ ret'.state = s
    /\ Exists(i) /\ HasState(exps[i])

\* C1: update_state(s) appends nothing when s is the current state and
\* otherwise appends exactly (s, now) and makes s the derived state, whatever
\* the current state is; so no two adjacent entries of states_info carry the
\* same state.
C1_UpdateStateAppendsOncePerChange ==
    /\ [](\A i \in ExpSlots : Exists(i) => NoAdjacentRepeat(states_info(i)))
    /\ [][\A i \in ExpSlots, s \in State :
            IsUpdateState(i, s) =>
                IF s = state(exps[i])
                THEN states_info(i)' = states_info(i)
                ELSE /\ states_info(i)' = Append(states_info(i), <<s, now>>)
                     /\ state(exps'[i]) = s]_vars

\* C1 witness: from a soft-terminal state the record was moved on by a call
\* with a different state, and the entry was appended
C1_Witness ==
    /\ ret.op = "update_state"
    /\ Len(states_info(1)) = 3
    /\ states_info(1)[2][1] \in {"terminated", "lost", "finished"}
    /\ states_info(1)[3][1] = ret.state

\* the text of a non-negative integer, as a log row carries it
RECURSIVE Numeral(_)
Numeral(n) ==
    LET d == <<"0", "1", "2", "3", "4", "5", "6", "7", "8", "9">>[(n % 10) + 1]
    IN IF n < 10 THEN <<d>> ELSE Append(Numeral(n \div 10), d)

\* the comparison the configuration asks for, on integers
Holds(comparator, v, T) ==
    CASE comparator = "gt" -> v > T
      [] comparator = "lt" -> v < T
      [] comparator = "eq" -> v = T
      [] comparator = "geq" -> v >= T
      [] comparator = "leq" -> v <= T

\* the values v whose row `<varname> <v>` the alphabet can spell
Values == 0..22

\* C6: on a row `<varname> <v>` with no active time-gate the evaluator returns
\* the action label exactly when v compares to killvalue as the comparator
\* says, and 'no action' otherwise, boundary v = killvalue included.
C6_ComparatorLaws ==
    ret.op = "ExperimentWarning.get_action" =>
        LET c == warns["c"]
            T == c.killvalue.n
            ungated == c.when = IMMEDIATELY \/ now - c.start_time >= 60
        IN \A v \in Values :
              (ungated /\ arg = c.varname \o <<" ">> \o Numeral(v)) =>
                  ret.value = IF Holds(c.comparator, v, T)
                              THEN c.action ELSE NoAction

\* C6 witness: a gated `gt` condition, its gate elapsed, sees the boundary
\* value and stays silent
C6_Witness ==
    /\ ret.op = "ExperimentWarning.get_action"
    /\ warns["c"].comparator = "gt"
    /\ warns["c"].when = TIME_1
    /\ now >= 60
    /\ arg = <<"a", " ", "2">>
    /\ warns["c"].killvalue = Rat(2, 1)
    /\ ret.value = NoAction

\* the step is a call of update_state('running') that changes exps[i]'s state
EntersRunning(i) ==
    /\ IsUpdateState(i, "running")
    /\ state(exps[i]) # "running"

\* C3: a condition's start_time changes only in a call of
\* update_state('running') on a record that is not running, which sets the
\* start_time of every condition attached to that record to the current
\* instant; every other call leaves every start_time as it was.
C3_OnlyEnteringRunningResetsTimers ==
    /\ [][(\E r \in DOMAIN warns : warns'[r].start_time # warns[r].start_time)
            => \E i \in ExpSlots : EntersRunning(i)]_vars
    /\ [][\A i \in ExpSlots :
            EntersRunning(i) =>
                \A r \in CondRefs(exps[i]) : warns'[r].start_time = now]_vars

\* C3 witness: both timers of the record were re-armed, after construction,
\* by its entering `running`
C3_Witness ==
    /\ ret.op = "update_state" /\ ret.state = "running"
    /\ now > 0
    /\ Cardinality(CondRefs(exps[1])) = 2
    /\ \A r \in CondRefs(exps[1]) : warns[r].start_time = now

\* what each attached condition says about the row of the last get_action
Verdict(key) ==
    ExperimentWarning_get_action(
        warns[exps[ret.exp]._fields["conditions"].v[key].v], ret.logrow, now)

\* the positions of the iteration order at which a condition fired `kill`,
\* and those at which one fired another label
KillAt == {n \in 1..Len(ret.order) : Verdict(ret.order[n]) = "kill"}
WarnAt == {n \in 1..Len(ret.order) : Verdict(ret.order[n]) \notin {"kill", NoAction}}

\* C4: when a condition fires `kill` on the row, get_action returns kill with
\* the name of a condition that fired it, in every iteration order and
\* whatever else fires before or after.
C4_KillWins ==
    (ret.op = "get_action" /\ KillAt # {}) =>
        /\ ret.value[1] = "kill"
        /\ \E n \in KillAt : ret.value[2] = ret.order[n]

\* C4 witness: two other conditions fired before kill was reached
C4_Witness ==
    /\ ret.op = "get_action"
    /\ Len(ret.order) = 3
    /\ KillAt = {3}
    /\ WarnAt = {1, 2}
    /\ ret.value = <<"kill", "k">>

Last(S) == CHOOSE n \in S : \A m \in S : m <= n
First(S) == CHOOSE n \in S : \A m \in S : n <= m

C7_DefaultWhenNothingFires ==
    (/\ ret.op = "get_action"
     /\ LET c == exps[ret.exp]._fields["conditions"]
        IN c.t = "dict" => \A key \in DOMAIN c.v : Verdict(key) = NoAction)
    => ret.value = <<NoAction, "">>

\* C7 witness: the record has no conditions mapping and a row was evaluated
C7_Witness ==
    /\ ret.op = "get_action"
    /\ exps[1]._fields["conditions"] = None
    /\ ret.value = <<NoAction, "">>

\* C8: get_action changes nothing of the record: not states_info, not the
\* warnings, not any field, not any condition's start_time, whatever it
\* returns.
C8_GetActionHasNoEffect ==
    [][ret'.op = "get_action" =>
          /\ exps' = exps
          /\ lists' = lists
          /\ warns' = warns
          /\ fs' = fs
          /\ now' = now]_vars

\* C8 witness: a call returned a warn-style label for a running record
C8_Witness ==
    /\ ret.op = "get_action"
    /\ ret.value[1] \in {"warn", "mail"}
    /\ HasState(exps[1]) /\ state(exps[1]) = "running"
    /\ lists[exps[1]._fields["warnings"].v] = <<>>

\* the time of exps[i]'s last change of state into `running`, -1 if none
EnteredRunningAt(i) ==
    LET si == states_info(i)
        at == {n \in 1..Len(si) : si[n][1] = "running"}
    IN IF at = {} THEN 0 - 1 ELSE si[Last(at)][2]

\* C2: the condition k, gated by `time 1`, asked about a row that satisfies
\* it, stays silent while less than one minute has passed since the record
\* last entered `running` and fires once a minute or more has passed.
C2_GateCountsFromLastRunning ==
    \A i \in ExpSlots :
        (/\ ret.op = "get_action" /\ ret.exp = i
         /\ ret.logrow = <<"a", " ", "2">>
         /\ \E n \in DOMAIN ret.order : ret.order[n] = "k"
         /\ EnteredRunningAt(i) >= 0)
        => IF now - EnteredRunningAt(i) < 60
           THEN ret.value[1] # "kill"
           ELSE ret.value = <<"kill", "k">>

IsPrefix(a, b) == Len(a) <= Len(b) /\ SubSeq(b, 1, Len(a)) = a

\* C9: after any operations, attribute writes included, states_info is
\* non-empty, starts with the `defined` entry of construction, and only ever
\* grows at its end.
C9_StatesInfoAppendOnly ==
    /\ [](\A i \in ExpSlots :
            Exists(i) => /\ states_info(i) # <<>>
                         /\ states_info(i)[1][1] = "defined")
    /\ [][\A i \in ExpSlots :
            Exists(i) => IsPrefix(states_info(i), states_info(i)')]_vars

\* the step is a call on exps[i] that writes its history
WritesHistory(i) ==
    /\ ret'.op \in {"set_warning", "set_multiple_warnings", "update_state"}
    /\ ret'.exp = i

\* C10: the duplicate has the original's mandatory and optional fields, only
\* its own `defined` entry and no warnings; afterwards set_warning,
\* set_multiple_warnings and update_state on either record leave the other
\* record's warnings and states_info as they were.
C10_DuplicateIsIndependent ==
    /\ [][ret'.op = "duplicate_experiment" =>
            LET e == exps[ret'.src]
                d == exps'[ret'.exp]
            IN /\ \A f \in MANDATORY_FIELDS \cup OPTIONAL_FIELDS :
                    d._fields[f] = e._fields[f]
               /\ d._fields["states_info"].v = <<<<"defined", now>>>>
               /\ get_warnings(d, lists') = <<>>]_vars
    /\ [][\A i, j \in ExpSlots :
            (i # j /\ WritesHistory(i) /\ Exists(j)) =>
                /\ get_warnings(exps'[j], lists') = get_warnings(exps[j], lists)
                /\ states_info(j)' = states_info(j)]_vars

\* C11: a condition belongs to one record only, a duplicate and its original
\* included: a record's entering `running` leaves the start_time of every
\* condition attached to another record as it was.
C11_ConditionsOwnedByOneRecord ==
    [][\A i, j \in ExpSlots :
         (i # j /\ EntersRunning(i) /\ Exists(j)) =>
             \A r \in CondRefs(exps[j]) :
                 warns'[r].start_time = warns[r].start_time]_vars

\* C12: the record duplicate_experiment returns has an id and a path that
\* both differ from the id and the path of the record it was made from.
C12_DuplicateHasFreshIdAndPath ==
    [][ret'.op = "duplicate_experiment" =>
          LET e == exps[ret'.src]
              d == exps'[ret'.exp]
          IN /\ id(d) # id(e)
             /\ d._fields["path"] # e._fields["path"]]_vars

\* C13: whatever is done to the record, writes of `id` and `experiment_id`
\* through the attribute setter included, reading `id` yields the
\* experiment_id the constructor was given.
C13_IdIsImmutable ==
    Exists(1) => getattr(exps[1], "id") = [raised |-> "", value |-> Str("e1")]

\* the closed field set, and the derived views that may be read besides
ClosedFields == MANDATORY_FIELDS \cup OPTIONAL_FIELDS \cup AUTOMATIC_FIELDS
DerivedViews == {"id", "state", "state_info", "callstring"}

\* C14: a write to a name outside the closed field set raises and leaves the
\* record as it was; a read of a name outside the set and the derived views
\* raises instead of returning a value.
C14_ClosedFieldSet ==
    /\ [][(ret'.op = "setattr" /\ ret'.attr \notin ClosedFields) =>
            /\ ret'.raised = "AttributeError"
            /\ exps' = exps]_vars
    /\ [][(ret'.op = "getattr"
             /\ ret'.attr \notin ClosedFields \cup DerivedViews) =>
            ret'.raised = "AttributeError"]_vars

\* the processor registered for OUT under the field is the one of the spec
Registered(field, spec) == exps[1]._fields[field] = Registry(OUT, spec)

\* no processor is registered for OUT under the field
Unregistered(field) ==
    LET registry == exps[1]._fields[field]
    IN registry.t # "dict" \/ OUT \notin DOMAIN registry.v

\* the output file get_output opens exists, and its lines
Readable ==
    /\ get_results_dir(exps[1]).raised = ""
    /\ fs[<<get_results_dir(exps[1]).value, OUT>>].exists
OutLines == fs[<<get_results_dir(exps[1]).value, OUT>>].lines

\* the reader returned, and returned a mapping
Mapping(r) == r.raised = "" /\ r.value.t = "dict"

\* C15: with a whole-file and a per-line processor registered for the same
\* file and both succeeding, the whole-file one with some key, get_output
\* returns the mapping of the whole-file processor.
C15_WholeFileProcessorPreferred ==
    (/\ ret.op = "get_output" /\ ret.filename = OUT
     /\ Registered("output_file_processor", <<"m", " ", "f">>)
     /\ Registered("output_line_processor", <<"m", " ", "l">>)
     /\ Readable
     /\ Mapping(FileResult(OutLines))
     /\ DOMAIN FileResult(OutLines).value.v # {}
     /\ \A n \in 1..Len(OutLines) : Mapping(LineResult(OutLines[n])))
    => /\ ret.raised = ""
       /\ ret.value = FileResult(OutLines).value

\* C16: whatever fails during extraction, get_output raises OutputReadError
\* and no other kind of error.
C16_OnlyOutputReadErrorEscapes ==
    ret.op = "get_output" => ret.raised \in {"", "OutputReadError"}

\* C17: a processor result that is no mapping makes get_output raise
\* OutputReadError, from the whole-file processor and from the per-line
\* processor on any line.
C17_NonMappingIsOutputReadError ==
    /\ (/\ ret.op = "get_output" /\ ret.filename = OUT
        /\ Registered("output_file_processor", <<"m", " ", "f">>)
        /\ Unregistered("output_line_processor")
        /\ Readable
        /\ FileResult(OutLines).raised = ""
        /\ FileResult(OutLines).value.t # "dict")
       => ret.raised = "OutputReadError"
    /\ (/\ ret.op = "get_output" /\ ret.filename = OUT
        /\ Unregistered("output_file_processor")
        /\ Registered("output_line_processor", <<"m", " ", "l">>)
        /\ Readable
        /\ \E n \in 1..Len(OutLines) :
              /\ LineResult(OutLines[n]).raised = ""
              /\ LineResult(OutLines[n]).value.t # "dict"
              /\ \A m \in 1..(n - 1) : LineResult(OutLines[m]).raised = "")
       => ret.raised = "OutputReadError"

\* the values the per-line reader reports for key k, in line order
RECURSIVE ValuesOf(_, _)
ValuesOf(k, content) ==
    IF content = <<>> THEN <<>>
    ELSE LET r == LineResult(Head(content))
         IN IF Mapping(r) /\ k \in DOMAIN r.value.v
            THEN <<r.value.v[k]>> \o ValuesOf(k, Tail(content))
            ELSE ValuesOf(k, Tail(content))

\* the keys the per-line reader reports for some line
KeysOf(content) ==
    {k \in {SliceTo(content[n], 1) : n \in 1..Len(content)} :
        ValuesOf(k, content) # <<>>}

\* C18: with only a per-line processor registered, what get_output returns
\* maps every key to the values reported for it, one per line that reported
\* it, in line order; and it does return when every line yields a mapping
\* and some key is reported.
C18_LineValuesAccumulate ==
    (/\ ret.op = "get_output" /\ ret.filename = OUT
     /\ Unregistered("output_file_processor")
     /\ Registered("output_line_processor", <<"m", " ", "l">>)
     /\ Readable)
    => /\ ret.raised = "" =>
            ret.value = Dict([k \in KeysOf(OutLines) |->
                                List(ValuesOf(k, OutLines))])
       /\ (/\ \A n \in 1..Len(OutLines) : Mapping(LineResult(OutLines[n]))
           /\ KeysOf(OutLines) # {}) => ret.raised = ""

\* C18 witness: two lines reported the same key and both values were kept,
\* in line order
C18_Witness ==
    /\ ret.op = "get_output" /\ ret.raised = ""
    /\ Unregistered("output_file_processor")
    /\ Readable
    /\ OutLines = <<<<"a", "1">>, <<"a", "2">>>>
    /\ ret.value = Dict([k \in {<<"a">>} |-> List(<<Num(1), Num(2)>>)])

\* C19: plotter raises PlotError for a plot name that is no key of the plot
\* mapping (a record with no mapping included), for a plot spec of fewer
\* than three tokens, for a function that cannot be imported and for a
\* failing plot function; a failure of get_output surfaces as
\* OutputReadError; on success the value of the plot function is returned.
C19_PlotterErrorChannels ==
    ret.op = "plotter" =>
        LET plot == exps[1]._fields["plot"]
            defined == plot.t = "dict" /\ ret.plot_name \in DOMAIN plot.v
            args == shlex_split(plot.v[ret.plot_name].v)
            parsed == Len(args) >= 3
            imported == <<args[1], args[2]>> \in Importable
            output == get_output(exps[1], args[3], fs)
            result == Plot(args[2],
                           <<get_results_dir(exps[1]).value, ret.plot_name>>,
                           ret.feedback,
                           plot_data(SubSeq(args, 4, Len(args)), output.value))
        IN IF ~defined THEN ret.raised = "PlotError"
           ELSE IF ~parsed THEN ret.raised = "PlotError"
           ELSE IF ~imported THEN ret.raised = "PlotError"
           ELSE IF output.raised # "" THEN ret.raised = "OutputReadError"
           ELSE IF result.raised # "" THEN ret.raised = "PlotError"
           ELSE ret.raised = "" /\ ret.value = result.value

\* C20: a row that, trimmed, does not start with the varname, or starts with
\* it and goes on with something that is no number, gets 'no action', with
\* a time-gate or without, elapsed or not.
C20_LogNoiseNeverFires ==
    ret.op = "ExperimentWarning.get_action" =>
        LET c == warns["c"]
            row == Strip(arg)
            rest == SubSeq(row, Len(c.varname) + 1, Len(row))
        IN (~IsPrefix(c.varname, row) \/ ~float(rest).ok) =>
               ret.value = NoAction

\* C20 witness: the varname occurs after the start of a row whose number
\* would satisfy the ungated condition
C20_Witness ==
    /\ ret.op = "ExperimentWarning.get_action"
    /\ arg = <<"2", "a", "2">>
    /\ warns["c"].when = IMMEDIATELY
    /\ warns["c"].comparator = "geq"
    /\ ret.value = NoAction

\* C21: a gated condition asked about a row that satisfies its comparison is
\* silent exactly while the elapsed time e, in minutes, is less than the
\* gate value g: it fires as soon as e/60 >= g, for gate values with a
\* fraction as for whole ones.
C21_GateComparesExactMinutes ==
    (/\ ret.op = "ExperimentWarning.get_action"
     /\ Contains(warns["c"].when, <<"t", "i", "m", "e">>)
     /\ arg = <<"a", " ", "2">>
     /\ Holds(warns["c"].comparator, 2, warns["c"].killvalue.n))
    => LET c == warns["c"]
           g == float(SliceFrom(c.when, 4)).v
           e == now - c.start_time
       IN ret.value = IF e * g.d < 60 * g.n THEN NoAction ELSE c.action

====
